---- MODULE Spec2Model ----
(***************************************************************************)
(* Certificate verification core of edutrack-be:                           *)
(*   - extract_numeric_score (the score normalizer),                       *)
(*   - WEIGHTS / run_check_module / run_non_qr_checks (the orchestrator),  *)
(*   - verify_certificate (the top-level dispatcher).                      *)
(*                                                                         *)
(* Numbers.  Python floats are modelled as exact integers counted in       *)
(* hundredths: a score of 85 points is 8500, a confidence of 0.5 is 50,    *)
(* the external comparator score 0.7 is 70.  round(x, 2) is then rounding  *)
(* to an integer.  Weights are exact fractions WeightNum / WeightDen.      *)
(***************************************************************************)
EXTENDS Integers, Sequences, FiniteSets, TLC

VARIABLES
    nPc,            \* normalizer harness: "ready" | "done"
    nIn,            \* the CheckResult handed to extract_numeric_score
    nOut,           \* what extract_numeric_score did with nIn
    nScore,         \* the clamped score run_non_qr_checks keeps (main.py:203)
    pc,             \* position of one verify_certificate call
    file_input,     \* the argument: [kind, ok]
    doc,            \* what the document holds: [verification, producer, images]
    registry,       \* CHECK_MODULES as registered
    temp_dir,       \* the call's cert_verify_* directory exists
    temp_files,     \* files inside temp_dir
    cwd_files,      \* files and directories written under the working directory
    results,        \* verify_certificate's results dict
    idx,            \* run_non_qr_checks: position in CHECK_MODULES (1-based)
    modules,        \* run_non_qr_checks: results[mod] for the checks run so far
    weighted_total, \* run_non_qr_checks: weighted_total (numerator over WeightDen)
    ret,            \* how the call ended: [kind, value]
    log,            \* what the call did: functions called, network calls made,
                    \* and what scraping and the comparison LLM answered
    pPc,            \* parser harness: "ready" | "done"
    pText,          \* the LLM text handed to safe_parse_json, as tokens
    pOut,           \* what safe_parse_json returned for pText
    cPc,            \* two concurrent calls: position of each inside logo_check
    cOld,           \* chdir's local `old` of each call
    cCwd,           \* the process working directory
    cFiles,         \* content of the files under <dir>/auto_logos
    cPath,          \* the image path each call holds
    cRes,           \* what each call's logo_check analysed
    fPc,            \* function harness: "ready" | "done"
    fIn,            \* the argument handed to the function under study
    fOut,           \* what the function returned for fIn
    tPc,            \* process_certificate_verification: position of the task
    tResult,        \* what verify_certificate handed the task
    tCert,          \* the task's Certificate object: its status field
    tRet,           \* how the task ended
    vPc,            \* certificate_verify_view: position of the mentor's request
    vNew,           \* the status the mentor sends
    vCert,          \* the view's Certificate object: its status field
    dbStatus        \* the certificate row's status column

nvars == <<nPc, nIn, nOut, nScore>>
pvars == <<pPc, pText, pOut>>
cvars == <<cPc, cOld, cCwd, cFiles, cPath, cRes>>
fvars == <<fPc, fIn, fOut>>
tvars == <<tPc, tResult, tCert, tRet, vPc, vNew, vCert, dbStatus>>
\* everything but the state of one verify_certificate call
hvars == <<nvars, pvars, cvars, fvars, tvars>>
mvars == <<pc, file_input, doc, registry, temp_dir,
           temp_files, cwd_files, results, idx, modules, weighted_total, ret, log>>
vars  == <<nvars, mvars, pvars, cvars, fvars, tvars>>

\* x points on the 0..100 scale, in hundredths
Pt(x) == x * 100

Max(a, b) == IF a >= b THEN a ELSE b
Min(a, b) == IF a <= b THEN a ELSE b

(***************************************************************************)
(* Python values held under a key of a CheckResult.                        *)
(*   absent : the key is not in the mapping                                *)
(*   none   : None                                                         *)
(*   num    : an int or float (n, in hundredths)                           *)
(*   numstr : a string float() can parse (n, in hundredths)                *)
(*   str    : any other string (s)                                         *)
(*   dict   : a mapping                                                    *)
(***************************************************************************)
Absent    == [t |-> "absent", n |-> 0, s |-> ""]
Null      == [t |-> "none",   n |-> 0, s |-> ""]
Num(x)    == [t |-> "num",    n |-> x, s |-> ""]
NumStr(x) == [t |-> "numstr", n |-> x, s |-> ""]
Str(x)    == [t |-> "str",    n |-> 0, s |-> x]
Mapping   == [t |-> "dict",   n |-> 0, s |-> ""]

\* k in output
Present(v) == v.t # "absent"
\* isinstance(v, (int, float))
IsNumber(v) == v.t = "num"
\* float(v) returns (it raises TypeError / ValueError otherwise)
FloatOk(v) == v.t \in {"num", "numstr"}
\* truth value of output.get(k), as `or` tests it
Truthy(v) ==
    CASE v.t = "absent" -> FALSE
      [] v.t = "none"   -> FALSE
      [] v.t = "num"    -> v.n # 0
      [] v.t = "str"    -> v.s # ""
      [] OTHER          -> TRUE
\* str(v) for the values a verdict key holds
StrOf(v) ==
    CASE v.t = "str"  -> v.s
      [] v.t = "none" -> "None"
      [] OTHER        -> ""
\* str.upper() on the strings of the model
Upper(s) ==
    CASE s = "None"           -> "NONE"
      [] s = "original"       -> "ORIGINAL"
      [] s = "possible_match" -> "POSSIBLE_MATCH"
      [] s = "fake"           -> "FAKE"
      [] s = "unknown"        -> "UNKNOWN"
      [] OTHER                -> s

\* str(a or b or "")
LabelOr(a, b) ==
    IF Truthy(a) THEN StrOf(a) ELSE IF Truthy(b) THEN StrOf(b) ELSE ""

(***************************************************************************)
(* A CheckResult: what run_check_module hands back.  kind says whether it  *)
(* is a mapping at all; sub lists the mapping's values that are themselves *)
(* mappings, in iteration order.                                           *)
(***************************************************************************)
EmptyDict ==
    [kind |-> "dict", n |-> 0,
     error |-> Absent, final_score |-> Absent, finalScore |-> Absent,
     finalscore |-> Absent, score |-> Absent, confidence |-> Absent,
     verdict |-> Absent, final_verdict |-> Absent, sub |-> <<>>]

NoneResult   == [EmptyDict EXCEPT !.kind = "none"]
NumResult(x) == [EmptyDict EXCEPT !.kind = "num", !.n = x]
OtherResult  == [EmptyDict EXCEPT !.kind = "other"]

Ret(sc, lb) == [raised |-> FALSE, score |-> sc, label |-> lb]
Raised      == [raised |-> TRUE,  score |-> 0,  label |-> ""]

LexHigh == {"EXACT_MATCH", "ORIGINAL", "LIKELY_ORIGINAL"}
LexMid  == {"POSSIBLE_MATCH", "LIKELY_SAME_TEMPLATE", "POSSIBLE"}
LexLow  == {"NO_MATCH", "LIKELY_TAMPERED", "FAKE"}
LexNeutral == {"NO_DB", "UNKNOWN", ""}

\* faulty variant: the key final_score is never looked up, only its variants
FirstNumericFinal_variantsOnly(o) ==
    IF IsNumber(o.finalScore) THEN o.finalScore
    ELSE IF IsNumber(o.finalscore) THEN o.finalscore
    ELSE Absent

\* the first of the keys final_score, finalScore, finalscore that is present
\* and numeric (main.py:68-70), or Absent
FirstNumericFinal(o) ==
    IF IsNumber(o.final_score) THEN o.final_score
    ELSE IF IsNumber(o.finalScore) THEN o.finalScore
    ELSE IF IsNumber(o.finalscore) THEN o.finalscore
    ELSE Absent

\* main.py:75-77
ConfidenceRule(o) ==
    IF FloatOk(o.confidence)
    THEN Ret(IF o.confidence.n <= 100 THEN o.confidence.n * 100 ELSE o.confidence.n,
             LabelOr(o.verdict, Absent))
    ELSE Raised

\* main.py:72-73
ScoreRule(o) ==
    IF FloatOk(o.score) THEN Ret(o.score.n, LabelOr(o.verdict, Absent)) ELSE Raised

RECURSIVE extract_numeric_score(_)
extract_numeric_score(o) ==
    IF o.kind = "none" THEN Ret(Pt(50), "UNKNOWN")
    ELSE IF o.kind = "num" THEN Ret(o.n, "NUMERIC")
    ELSE IF o.kind # "dict" THEN Ret(Pt(50), "UNKNOWN")
    ELSE IF Present(o.error) THEN Ret(0, "ERROR")
    ELSE IF Present(FirstNumericFinal(o))
         THEN Ret(FirstNumericFinal(o).n, LabelOr(o.final_verdict, o.verdict))
    ELSE IF Present(o.score) THEN ScoreRule(o)
    ELSE IF Present(o.confidence) THEN ConfidenceRule(o)
    ELSE LET v == Upper(StrOf(o.verdict)) IN
         IF v \in LexHigh THEN Ret(Pt(100), v)
         ELSE IF v \in LexMid THEN Ret(Pt(70), v)
         ELSE IF v \in LexLow THEN Ret(0, v)
         ELSE IF v \in LexNeutral THEN Ret(Pt(50), v)
         ELSE IF o.sub # <<>> THEN extract_numeric_score(Head(o.sub))
         ELSE Ret(Pt(50), "UNKNOWN")

\* faulty variant: the upper clamp is missing
ClampScore_noUpper(score) == Max(0, score)

\* main.py:203  score = max(0, min(100, score))
ClampScore(score) == Max(0, Min(Pt(100), score))

(***************************************************************************)
(* Bounded CheckResults for the normalizer harness.                        *)
(***************************************************************************)
\* most keys of {error, final_score, finalScore, finalscore, score,
\* confidence, verdict, final_verdict} a sampled mapping carries
MaxKeys == 2
\* deepest nesting of mappings inside a sampled mapping
MaxDepth == 1

ErrorVals        == {Absent, Str("boom")}
FinalScoreVals   == {Absent, Null, Num(Pt(90)), Str("high")}
VariantVals      == {Absent, Num(Pt(60))}
ScoreVals        == {Absent, Null, Num(-Pt(5)), Num(Pt(85)), Num(Pt(150)),
                     NumStr(Pt(30)), Str("n/a")}
ConfidenceVals   == {Absent, Null, Num(50), Num(100), Num(Pt(90))}
VerdictVals      == {Absent, Null, Str("ORIGINAL"), Str("possible_match"),
                     Str("FAKE"), Str("NO_DB"), Str(""), Str("SUSPICIOUS")}
FinalVerdictVals == {Absent, Str("GENUINE")}

KeyCount(o) ==
    Cardinality({k \in {"error", "final_score", "finalScore", "finalscore",
                        "score", "confidence", "verdict", "final_verdict"} :
                 Present(o[k])})

FlatResults(maxKeys) ==
    {o \in [kind : {"dict"}, n : {0},
            error : ErrorVals, final_score : FinalScoreVals,
            finalScore : VariantVals, finalscore : VariantVals,
            score : ScoreVals, confidence : ConfidenceVals,
            verdict : VerdictVals, final_verdict : FinalVerdictVals,
            sub : {<<>>}] : KeyCount(o) <= maxKeys}

\* the mappings found nested inside a CheckResult: one key each
InnerResults ==
    {[EmptyDict EXCEPT !.score = Num(Pt(85))],
     [EmptyDict EXCEPT !.score = Null],
     [EmptyDict EXCEPT !.error = Str("inner")],
     [EmptyDict EXCEPT !.verdict = Str("FAKE")],
     [EmptyDict EXCEPT !.verdict = Str("SUSPICIOUS")],
     EmptyDict}

\* nested mappings, nested up to depth d
RECURSIVE NestedResults(_)
NestedResults(d) ==
    IF d = 0 THEN {}
    ELSE {[o EXCEPT !.sub = s] :
            o \in InnerResults,
            s \in {<<>>} \cup {<<r>> : r \in NestedResults(d - 1)}}

NormInputs ==
    {[o EXCEPT !.sub = s] :
        o \in FlatResults(MaxKeys),
        s \in {<<>>} \cup {<<r>> : r \in NestedResults(MaxDepth)}}
    \cup {NoneResult, OtherResult, NumResult(Pt(42)), NumResult(Pt(250))}

(***************************************************************************)
(* Check registry and weights (non_qr_verification/main.py:15-36).         *)
(* A weight is the fraction WEIGHTS(reg)[m] / WeightDen(reg).              *)
(***************************************************************************)
CHECK_MODULES ==
    <<"color_check", "ela_check", "logo_check", "metadata_check", "name_check",
      "phash_check", "signature", "signature_check", "signature_image_check",
      "ssim_check", "text_check", "visual_fingerprint_check">>

TOTAL == 100
META_WEIGHT == 50
OTHER_TOTAL == TOTAL - META_WEIGHT

Range(f) == {f[i] : i \in DOMAIN f}

NUM_OTHER(reg) == Len(reg) - 1
\* denominator of every weight: OTHER_TOTAL / NUM_OTHER is OTHER_TOTAL over NUM_OTHER
WeightDen(reg) == IF NUM_OTHER(reg) > 0 THEN NUM_OTHER(reg) ELSE 1
\* OTHER_TOTAL / NUM_OTHER if NUM_OTHER > 0 else 0.0   (numerator over WeightDen)
OTHER_WEIGHT_EACH(reg) == IF NUM_OTHER(reg) > 0 THEN OTHER_TOTAL ELSE 0
\* faulty variant: metadata_check weighs what every other check weighs
WEIGHTS_equal(reg) == [m \in Range(reg) |-> WeightDen(reg)]

\* {m: (META_WEIGHT if m == "metadata_check" else OTHER_WEIGHT_EACH) ...}
WEIGHTS(reg) ==
    [m \in Range(reg) |->
        IF m = "metadata_check" THEN META_WEIGHT * WeightDen(reg)
        ELSE OTHER_WEIGHT_EACH(reg)]

RECURSIVE SumOver(_, _)
SumOver(f, S) ==
    IF S = {} THEN 0
    ELSE LET x == CHOOSE y \in S : TRUE IN f[x] + SumOver(f, S \ {x})

\* sum(WEIGHTS.values())   (numerator over WeightDen)
total_possible(reg) == SumOver(WEIGHTS(reg), Range(reg))

\* round(a / b) to the nearest integer, ties to even (Python's round), a >= 0, b > 0
RoundDiv(a, b) ==
    LET q == a \div b
        r == a % b
    IN  IF 2 * r < b THEN q
        ELSE IF 2 * r > b THEN q + 1
        ELSE IF q % 2 = 0 THEN q ELSE q + 1

(***************************************************************************)
(* Bounds of the dispatcher model.                                         *)
(***************************************************************************)
\* the checks other than metadata_check that a registry is drawn from
Pool == {"ela_check", "logo_check", "signature", "signature_check"}
\* most checks other than metadata_check in a registry
MaxOther == 2
\* most embedded raster images in a document
MaxImages == 1

Registries ==
    {SelectSeq(CHECK_MODULES, LAMBDA m : m = "metadata_check" \/ m \in S) :
        S \in {T \in SUBSET Pool : Cardinality(T) <= MaxOther}}

Documents ==
    [verification : {"none", "qr", "text"},
     producer : {"clean", "suspicious", "missing"},
     images : 0..MaxImages]

FileInputs ==
    [kind : {"path", "url", "stream"}, ok : BOOLEAN] \ {[kind |-> "stream", ok |-> FALSE]}

(***************************************************************************)
(* Python mappings as functions from keys; None as PyNone.                 *)
(***************************************************************************)
PyNone == [none |-> TRUE]
EmptyMap == [k \in {} |-> TRUE]
IsDict(x) == "none" \notin DOMAIN x
Get(d, k, default) == IF k \in DOMAIN d THEN d[k] ELSE default
List(n, what) == [t |-> "list", n |-> n, s |-> what]

(***************************************************************************)
(* run_check_module (main.py:103-180) with the handlers of the checks of   *)
(* Pool.  An outcome is the raw CheckResult returned, the files the check  *)
(* wrote under the working directory, or exit: SystemExit left the call.   *)
(***************************************************************************)
Out(raw, writes) == [exit |-> FALSE, raw |-> raw, writes |-> writes]
Exits            == [exit |-> TRUE, raw |-> NoneResult, writes |-> {}]
ErrorResult(msg) == [EmptyDict EXCEPT !.error = Str(msg)]
Scored(key, sc, vd, nested) ==
    [EmptyDict EXCEPT ![key] = Num(sc), !.verdict = Str(vd), !.sub = nested]

\* faulty variant: only a missing producer scores 0
run_metadata_check_missingOnly(d) ==
    LET sc == IF d.producer = "missing" THEN 0 ELSE Pt(100)
    IN  Scored("final_score", sc, IF sc = Pt(100) THEN "GENUINE" ELSE "FAKE",
               <<[EmptyDict EXCEPT !.score = Num(sc)]>>)

\* metadata_check.py:23-80  score_metadata / run_metadata_check
run_metadata_check(d) ==
    LET sc == IF d.producer = "clean" THEN Pt(100) ELSE 0
    IN  Scored("final_score", sc, IF sc = Pt(100) THEN "GENUINE" ELSE "FAKE",
               <<[EmptyDict EXCEPT !.score = Num(sc)]>>)

\* ela_check.py:74-119
ela_check(d) ==
    IF d.images = 0
    THEN {Scored("score", Pt(50), "NOT_APPLICABLE", <<>>)}
    ELSE {Scored("score", Pt(30), "LIKELY_TAMPERED", <<EmptyDict>>),
          Scored("score", Pt(55), "SUSPICIOUS", <<EmptyDict>>),
          Scored("score", Pt(85), "LIKELY_ORIGINAL", <<EmptyDict>>)}

\* logo_check.py:16-85: out_dir "auto_logos" is made under the working
\* directory, then one png per kept image and one crop per png
LogoFiles(k) ==
    {[dir |-> "auto_logos", name |-> "", n |-> 0]}
    \cup {[dir |-> "auto_logos", name |-> nm, n |-> i] :
            nm \in {"logo.png", "logo_crop.png"}, i \in 1..k}

\* signature.py:81-111: no region found, or round(final_score, 2) with
\* ORIGINAL from 65 up (samples 100, 67.33) and FAKE below (sample 40)
analyze_signature ==
    {[EmptyDict EXCEPT !.verdict = Str("NOT_FOUND")],
     Scored("score", Pt(100), "ORIGINAL", <<EmptyDict>>),
     Scored("score", 6733, "ORIGINAL", <<EmptyDict>>),
     Scored("score", Pt(40), "FAKE", <<EmptyDict>>)}

\* signature_check.py:237-274
ultra_forensic_signature_check ==
    {Scored("final_score", Pt(80), "LIKELY_ORIGINAL", <<EmptyDict>>),
     Scored("final_score", Pt(50), "UNCERTAIN", <<EmptyDict>>),
     Scored("final_score", Pt(35), "LIKELY_TAMPERED", <<EmptyDict>>),
     ErrorResult("Failed to parse PDF with PyPDF2")}

run_check_module(mod, d, sigfile) ==
    CASE mod = "metadata_check" -> {Out(run_metadata_check(d), {})}
      [] mod = "ela_check" -> {Out(r, {}) : r \in ela_check(d)}
      [] mod = "logo_check" ->
            {Out(EmptyDict, LogoFiles(k)) : k \in 0..d.images}
      [] mod = "signature" ->
            \* signature.py:13-19 runs when the module is loaded
            CASE sigfile = "missing" -> {Exits}
              [] sigfile = "corrupt" -> {Out(ErrorResult("import_failed"), {})}
              [] OTHER -> {Out(r, {}) : r \in analyze_signature}
                          \cup {Out(ErrorResult("handler crash"), {})}
      [] mod = "signature_check" ->
            {Out(r, {}) : r \in ultra_forensic_signature_check}
      [] OTHER -> {}

(***************************************************************************)
(* run_non_qr_checks (main.py:185-275).                                    *)
(***************************************************************************)
\* main.py:202-216, the entry results[mod] of one check.  score is in
\* hundredths, weight is the numerator over WeightDen, weighted_contribution
\* is round(weighted, 3) in thousandths of a weight point.
CheckEntry(reg, mod, raw) ==
    LET n      == extract_numeric_score(raw)
        score  == ClampScore(n.score)
        weight == WEIGHTS(reg)[mod]
    IN  [raw |-> raw, score |-> score, verdict |-> n.label, weight |-> weight,
         weighted_contribution |-> RoundDiv(score * weight, 10 * WeightDen(reg))]

\* main.py:219  round((weighted_total / total_possible) * 100, 2), in hundredths
FinalScore(wtotal, reg) == RoundDiv(wtotal, total_possible(reg))

\* faulty variant: the ORIGINAL band starts above 75
FinalVerdict_strict(final_score) ==
    IF final_score > Pt(75) THEN "ORIGINAL"
    ELSE IF final_score >= Pt(45) THEN "SUSPICIOUS"
    ELSE "FAKE"

\* main.py:221-226
FinalVerdict(final_score) ==
    IF final_score >= Pt(75) THEN "ORIGINAL"
    ELSE IF final_score >= Pt(45) THEN "SUSPICIOUS"
    ELSE "FAKE"

\* main.py:237-238
StrongSignals(reg, mods) ==
    SelectSeq(reg, LAMBDA m : mods[m].score >= Pt(85))
\* faulty variant: a score of 50 or less counts as critical
CriticalIssues_atFifty(reg, mods) ==
    SelectSeq(reg, LAMBDA m :
        \/ mods[m].score <= Pt(50)
        \/ mods[m].verdict \in {"FAKE", "TAMPERED", "NO_MATCH", "LIKELY_TAMPERED"})

\* main.py:240-241
CriticalIssues(reg, mods) ==
    SelectSeq(reg, LAMBDA m :
        \/ mods[m].score <= Pt(30)
        \/ mods[m].verdict \in {"FAKE", "TAMPERED", "NO_MATCH", "LIKELY_TAMPERED"})
\* main.py:256
SuspCount(reg, mods) ==
    Cardinality({m \in Range(reg) : mods[m].verdict \in {"SUSPICIOUS", "UNCERTAIN"}})

\* main.py:243-260, the sentences of overall_reason in order
OverallReason(reg, mods) ==
    LET strong   == Range(StrongSignals(reg, mods))
        critical == CriticalIssues(reg, mods)
        auth == (IF "metadata_check" \in strong
                 THEN <<"Metadata strongly supports authenticity.">> ELSE <<>>)
                \o (IF "signature_check" \in strong
                    THEN <<"Digital signature structure is valid.">> ELSE <<>>)
    IN  [sentences |->
            (IF auth = <<>> THEN <<"No strong authenticity markers detected.">> ELSE auth)
            \o (IF critical # <<>> THEN <<"Potential tampering found in: ">>
                ELSE <<"No strong tampering indicators found.">>)
            \o (IF SuspCount(reg, mods) >= 5
                THEN <<"Multiple modules reported suspicious behaviour.">> ELSE <<>>),
         critical_issues |-> critical]

\* main.py:263-275
Report(reg, mods, wtotal) ==
    [final_score   |-> FinalScore(wtotal, reg),
     final_verdict |-> FinalVerdict(FinalScore(wtotal, reg)),
     overall_reason |-> OverallReason(reg, mods),
     weights |-> WEIGHTS(reg),
     modules |-> mods]

(***************************************************************************)
(* verify_qr (qr_verification/verify_main.py:28-61) as verify_certificate  *)
(* sees it: the mapping it returns.  score is in hundredths of 1.0.        *)
(***************************************************************************)
ParsedFull  == [name |-> Str("NAGA RUTHVIK"), course |-> Str("Programming in Python"),
                issuer |-> Str("NPTEL"), date |-> Str("Jul-Oct 2024"),
                certificate_id |-> Str("NPTEL24CS78S436801880")]
ParsedNulls == [name |-> Null, course |-> Null, issuer |-> Null, date |-> Null,
                certificate_id |-> Null]
\* the same certificate as parsed from the issuer's page, under another name
ParsedOther == [ParsedFull EXCEPT !.name = Str("ANVESH REDDY")]

\* the reply format of the prompt, scraping.py:439-445
ComparisonOf(verified, score, pdf, site) ==
    [parsed_pdf_data |-> pdf, parsed_site_data |-> site, verified |-> verified,
     score |-> score, reason |-> Str("llm reason")]
Comparison(verified, score, parsed) ==
    ComparisonOf(verified, score, parsed,
                 IF IsDict(parsed) THEN parsed ELSE ParsedFull)

\* scraping.py:503-578 call_llm_extract_local: what it hands back.  The
\* request fails or is answered with an error status ({}), the content is
\* JSON but no object ({"_raw_parsed": ...}), the content is no JSON
\* ({"_raw_text": ...}), or it is an object, which nothing validates.
LlmFailed == EmptyMap
LlmReplies ==
    { LlmFailed,
      [_raw_parsed |-> Str("[1, 2]")],
      [_raw_text |-> Str("not json")],
      Comparison(TRUE, Num(95), ParsedFull),
      Comparison(TRUE, Num(70), ParsedFull),
      Comparison(FALSE, Num(30), ParsedFull),
      Comparison(FALSE, Num(95), ParsedFull),
      Comparison(TRUE, Null, ParsedFull),
      Comparison(TRUE, Num(95), PyNone),
      \* the names differ and the model says verified all the same, or not
      ComparisonOf(TRUE, Num(95), ParsedFull, ParsedOther),
      ComparisonOf(FALSE, Num(20), ParsedFull, ParsedOther) }

\* scraping.py:580-601
call_llm_extract(reply) ==
    IF reply = EmptyMap
    THEN [parsed_pdf_data |-> ParsedNulls, parsed_site_data |-> ParsedNulls,
          verified |-> FALSE, score |-> Num(0),
          reason |-> Str("Local LLM request failed or returned invalid JSON.")]
    ELSE reply

\* what extract_content_from_pdf and extract_from_website did, as verify_qr
\* sees it: "pdf_raised" (verify_main.py:31-33), "scrape_raised" (render and
\* static fetch both failed, or a file could not be saved; :58-59), "docs"
ScrapeOutcomes == {"pdf_raised", "scrape_raised", "docs"}

\* verify_main.py:28-61
verify_qr(scrape, reply) ==
    CASE scrape = "pdf_raised" ->
            [error |-> Str("Failed to extract content from PDF")]
      [] scrape = "scrape_raised" ->
            [error |-> Str("scrape failed"),
             fallback |-> [title |-> Str(""), source |-> Str("target_url")]]
      [] OTHER -> call_llm_extract(reply)

QrOutcomes ==
    {verify_qr(sc, rp) : sc \in ScrapeOutcomes, rp \in LlmReplies}

(***************************************************************************)
(* extract_metadata_with_llm (backend_interface.py:256-333).               *)
(***************************************************************************)
MetaDefaults ==
    [category |-> Str("OTHER"), level |-> Str("COLLEGE"), rank |-> Str("PARTICIPATION"),
     skills |-> List(0, ""), summary |-> Str("Certificate verification completed")]

\* what call_llm_extract_local (backend_interface.py:177-253) can hand back:
\* {} (request failed, error status, empty object), a full object, a partial
\* one, {"_raw_text": ...} or {"_raw_parsed": ...} (no JSON object: a mapping
\* without any of the five keys), and an object with a null value
MetaReplies ==
    { EmptyMap,
      [category |-> Str("MOOC"), level |-> Str("NATIONAL"), rank |-> Str("FIRST"),
       skills |-> List(2, "python,algorithms"), summary |-> Str("Completed a MOOC")],
      [category |-> Str("MOOC")],
      [_raw_text |-> Str("not json")],
      [category |-> Str("MOOC"), skills |-> Null] }

\* final_meta = defaults.copy(); final_meta.update(metadata)
MergeMeta(reply) ==
    [k \in DOMAIN MetaDefaults \cup DOMAIN reply |->
        IF k \in DOMAIN reply THEN reply[k] ELSE MetaDefaults[k]]

\* calculate_academic_year (backend_interface.py:118-151) on the dates of the model
calculate_academic_year(date) ==
    IF ~Truthy(date) THEN Null
    ELSE IF date = Str("Jul-Oct 2024") THEN Str("2024-2025")
    ELSE Str("")

(***************************************************************************)
(* verify_certificate (backend_interface.py:336-523), step by step.        *)
(***************************************************************************)
SetKey(d, k, v) == [x \in DOMAIN d \cup {k} |-> IF x = k THEN v ELSE d[x]]

Returned(value) == [kind |-> "return", value |-> value]
RaisedOut(exc)  == [kind |-> "raise", value |-> [exception |-> exc]]
\* except Exception as e: return {"error": str(e)}   (lines 514-516)
ErrorReturn(msg) == Returned([error |-> msg])

UnifiedKeys ==
    {"title", "issuing_organization", "verification_url", "category", "level",
     "rank", "date_of_event", "academic_year", "ai_summary", "status",
     "rejection_reason", "reason", "skills"}

ReasonBoth     == "Both QR verification and non-QR forensic analysis failed to meet thresholds."
ReasonExternal == "QR verification failed (threshold: 0.7)."
ReasonForensic == "Non-QR forensic analysis failed (threshold: 70)."

\* lines 463-471
QrScore(qr_result) ==
    IF IsDict(qr_result) /\ "error" \notin DOMAIN qr_result
    THEN Get(qr_result, "score", Num(0)) ELSE Num(0)
ParsedPdfData(qr_result) ==
    IF IsDict(qr_result) /\ "error" \notin DOMAIN qr_result
    THEN Get(qr_result, "parsed_pdf_data", EmptyMap) ELSE EmptyMap
\* lines 474-475
NonQrScore(non_qr_result) ==
    IF IsDict(non_qr_result) THEN Get(non_qr_result, "final_score", 0) ELSE 0

\* faulty variant: the thresholds are met at 0.7 and at 70
FinalStatus_inclusive(qr_score, non_qr_score) ==
    IF qr_score >= 70 /\ non_qr_score >= Pt(70) THEN "verified" ELSE "rejected"

\* line 479
FinalStatus(qr_score, non_qr_score) ==
    IF qr_score > 70 /\ non_qr_score > Pt(70) THEN "verified" ELSE "rejected"

\* lines 482-489
RejectionReason(final_status, qr_score, non_qr_score) ==
    IF final_status # "rejected" THEN Null
    ELSE IF qr_score <= 70 /\ non_qr_score <= Pt(70) THEN Str(ReasonBoth)
    ELSE IF qr_score <= 70 THEN Str(ReasonExternal)
    ELSE IF non_qr_score <= Pt(70) THEN Str(ReasonForensic)
    ELSE Null

\* a or b
Or(a, b) == IF Truthy(a) THEN a ELSE b

\* the exceptions lines 462-506 raise
UnifyRaises(qr_result, non_qr_result) ==
    LET qs == QrScore(qr_result)
        ns == NonQrScore(non_qr_result)
    IN  \/ ~IsNumber(qs)                                  \* line 479: None > 0.7
        \/ /\ FinalStatus(qs.n, ns) = "rejected"          \* line 487: qr_result.get
           /\ RejectionReason("rejected", qs.n, ns) = Str(ReasonExternal)
           /\ ~IsDict(qr_result)
        \/ ~IsDict(ParsedPdfData(qr_result))              \* line 493: None.get

\* lines 491-506
UnifiedOutput(res, metadata) ==
    LET qr_result == res.qr_verification_result
        parsed == ParsedPdfData(qr_result)
        qs == QrScore(qr_result).n
        ns == NonQrScore(res.non_qr_verification_result)
        final_status == FinalStatus(qs, ns)
        rejection_reason == RejectionReason(final_status, qs, ns)
    IN  [title |-> Or(Get(parsed, "course", Null), Str("Unknown Certificate")),
         issuing_organization |-> Or(Get(parsed, "issuer", Null), Str("Unknown")),
         verification_url |-> res.qr_data,
         category |-> Get(metadata, "category", Str("OTHER")),
         level |-> Get(metadata, "level", Str("COLLEGE")),
         rank |-> Get(metadata, "rank", Str("PARTICIPATION")),
         date_of_event |-> Get(parsed, "date", Null),
         academic_year |-> calculate_academic_year(Get(parsed, "date", Null)),
         ai_summary |-> Get(metadata, "summary", Str("Certificate processed")),
         status |-> final_status,
         rejection_reason |-> rejection_reason,
         reason |-> IF Truthy(rejection_reason) THEN rejection_reason
                    ELSE Get(qr_result, "reason", Null),
         skills |-> Get(metadata, "skills", List(0, ""))]

NoCall == [kind |-> "none", value |-> EmptyMap]

\* one network call site: its timeout in seconds (0: none is passed) and the
\* most attempts its retry policy makes
NetCall(what, timeout, attempts) ==
    [call |-> what, timeout |-> timeout, attempts |-> attempts]
\* backend_interface.py:355  requests.get(file_input, stream=True)
DownloadCall == NetCall("document download", 0, 1)
\* scraping.py:88-102  @retry(stop_after_attempt(3)), set_default_timeout(20000)
RenderCall   == NetCall("page render", 20, 3)
\* scraping.py:182-184  @retry(stop_after_attempt(3)), timeout=30
FetchCall    == NetCall("PDF fetch", 30, 3)
\* scraping.py:132  requests.head(..., timeout=5)
HeadCall     == NetCall("HEAD probe", 5, 1)
\* scraping.py:548 and backend_interface.py:222  requests.post(..., timeout=120)
LlmCall      == NetCall("LLM request", 120, 1)
\* logo_check.py:133-138  requests.post(..., timeout=60)
LogoCall     == NetCall("logo LLM request", 60, 1)

\* the network calls verify_qr makes: none when the document cannot be read,
\* render and fetch while scraping, the HEAD probe and the LLM once it has docs
ExternalCalls(scrape) ==
    CASE scrape \in {"pdf_raised", "raised"} -> {}
      [] scrape = "scrape_raised" -> {RenderCall, FetchCall}
      [] OTHER -> {RenderCall, FetchCall, HeadCall, LlmCall}

NoLog == [calls |-> <<>>, net |-> {}, scrape |-> "none", reply |-> PyNone]

\* the harnesses at rest
NOff == nPc = "off" /\ nIn = NoneResult /\ nOut = Raised /\ nScore = 0
POff == pPc = "off" /\ pText = <<>> /\ pOut = [kind |-> "none", text |-> <<>>]
COff ==
    /\ cPc = <<>> /\ cOld = <<>> /\ cCwd = "" /\ cFiles = <<>>
    /\ cPath = <<>> /\ cRes = <<>>
FOff == fPc = "off" /\ fIn = <<>> /\ fOut = <<>>
TOff ==
    /\ tPc = "off" /\ tResult = "" /\ tCert = "" /\ tRet = ""
    /\ vPc = "off" /\ vNew = "" /\ vCert = "" /\ dbStatus = ""

Init ==
    /\ NOff /\ POff /\ COff /\ FOff /\ TOff
    /\ pc = "start"
    /\ file_input \in FileInputs
    /\ doc \in Documents
    /\ registry \in Registries
    /\ temp_dir = FALSE
    /\ temp_files = {}
    /\ cwd_files = {}
    /\ results = EmptyMap
    /\ idx = 0
    /\ modules = EmptyMap
    /\ weighted_total = 0
    /\ ret = NoCall
    /\ log = NoLog

\* lines 339-378: mkdtemp, materialize the input, build results
Acquire ==
    /\ pc = "start"
    /\ temp_dir' = TRUE
    /\ log' = IF file_input.kind = "url"
              THEN [log EXCEPT !.net = @ \cup {DownloadCall}] ELSE log
    /\ IF file_input.ok
       THEN /\ temp_files' = CASE file_input.kind = "stream" -> {"uploaded_certificate.pdf"}
                               [] file_input.kind = "url" -> {"downloaded_certificate.pdf"}
                               [] OTHER -> {}
            /\ results' =
                 [certificate_path |-> IF file_input.kind = "path"
                                       THEN "file_path" ELSE "uploaded_file",
                  verification_type |-> "unknown",
                  qr_data |-> Null,
                  qr_verification_result |-> PyNone,
                  non_qr_verification_result |-> PyNone,
                  final_verdict |-> "UNKNOWN",
                  final_score |-> 0]
            /\ pc' = "detect"
            /\ ret' = ret
       ELSE \* line 356 raises (caught at 514), line 366 returns
            /\ ret' = ErrorReturn(IF file_input.kind = "path"
                                  THEN "File not found" ELSE "download failed")
            /\ pc' = "cleanup"
            /\ UNCHANGED <<temp_files, results>>
    /\ UNCHANGED <<hvars, file_input, doc, registry, cwd_files, idx, modules, weighted_total>>

\* line 355: requests.get is given no timeout, so a server that accepts the
\* connection and sends nothing keeps the call waiting without end
DownloadStalls ==
    /\ pc = "start"
    /\ file_input.kind = "url"
    /\ temp_dir' = TRUE
    /\ log' = [log EXCEPT !.net = @ \cup {DownloadCall}]
    /\ pc' = "stalled"
    /\ UNCHANGED <<hvars, file_input, doc, registry, temp_files, cwd_files, results,
                   idx, modules, weighted_total, ret>>

\* faulty variant: the external sub-pipeline is skipped
AfterDetect_forensicOnly(verification_url) == "forensic"

\* lines 392-398 and 430-435: what runs after detection
AfterDetect(verification_url) ==
    IF Truthy(verification_url) THEN "external" ELSE "forensic"

\* lines 380-394 and 430-432: detect_qr, detect_url
Detect ==
    /\ pc = "detect"
    /\ LET verification_url ==
             CASE doc.verification = "qr" -> Str("https://issuer.example/qr")
               [] doc.verification = "text" -> Str("https://issuer.example/text")
               [] OTHER -> Null
       IN  /\ results' = [results EXCEPT
                            !.qr_data = verification_url,
                            !.verification_type =
                                IF Truthy(verification_url) THEN "QR/URL" ELSE "NON-QR"]
           /\ pc' = AfterDetect(verification_url)
    /\ log' = [log EXCEPT !.calls = @ \o <<"detect_qr", "detect_url">>]
    /\ UNCHANGED <<hvars, file_input, doc, registry, temp_dir, temp_files, cwd_files,
                   idx, modules, weighted_total, ret>>

\* lines 396-403: verify_qr(file_path, verification_url, output_dir=temp_dir)
External ==
    /\ pc = "external"
    /\ \E scrape \in ScrapeOutcomes \cup {"raised"} :
       \E reply \in (IF scrape = "docs" THEN LlmReplies ELSE {PyNone}) :
          /\ results' = [results EXCEPT !.qr_verification_result =
                           IF scrape = "raised"
                           THEN \* lines 401-403: an Exception left verify_qr
                                [error |-> Str("verify_qr raised")]
                           ELSE verify_qr(scrape, reply)]
          /\ log' = [calls |-> log.calls \o <<"verify_qr">>,
                     net |-> log.net \cup ExternalCalls(scrape),
                     scrape |-> scrape, reply |-> reply]
    \* qr_verification/main.py:38-49 saves the document's images into output_dir
    /\ temp_files' = temp_files \cup (IF doc.images > 0 THEN {"page_1_image_1"} ELSE {})
    /\ pc' = "forensic"
    /\ UNCHANGED <<hvars, file_input, doc, registry, temp_dir, cwd_files,
                   idx, modules, weighted_total, ret>>

\* main.py:185-194: the file exists; results = {}, weighted_total = 0
BeginChecks ==
    /\ pc = "forensic"
    /\ idx' = 1
    /\ modules' = EmptyMap
    /\ weighted_total' = 0
    /\ pc' = "checks"
    /\ log' = [log EXCEPT !.calls = @ \o <<"run_non_qr_checks">>]
    /\ UNCHANGED <<hvars, file_input, doc, registry, temp_dir, temp_files, cwd_files,
                   results, ret>>

\* main.py:196-216: one turn of the loop over CHECK_MODULES
RunCheck ==
    /\ pc = "checks"
    /\ idx <= Len(registry)
    /\ \E sigfile \in {"missing", "corrupt", "ok"} :
       \E out \in run_check_module(registry[idx], doc, sigfile) :
          /\ cwd_files' = cwd_files \cup out.writes
          /\ log' = IF \E f \in out.writes : f.n > 0
                    THEN [log EXCEPT !.net = @ \cup {LogoCall}] ELSE log
          /\ IF out.exit
             THEN \* SystemExit is no Exception: no except clause on the way stops it
                  /\ ret' = RaisedOut("SystemExit")
                  /\ pc' = "cleanup"
                  /\ UNCHANGED <<idx, modules, weighted_total, results>>
             ELSE IF extract_numeric_score(out.raw).raised
             THEN \* lines 410-412 / 442-444 of verify_certificate
                  /\ results' = [results EXCEPT !.non_qr_verification_result =
                                    [error |-> Str("normalizer raised")]]
                  /\ pc' = "combine"
                  /\ UNCHANGED <<idx, modules, weighted_total, ret>>
             ELSE LET e == CheckEntry(registry, registry[idx], out.raw) IN
                  /\ modules' = SetKey(modules, registry[idx], e)
                  /\ weighted_total' = weighted_total + e.score * e.weight
                  /\ idx' = idx + 1
                  /\ UNCHANGED <<pc, results, ret>>
    /\ UNCHANGED <<hvars, file_input, doc, registry, temp_dir, temp_files>>

\* main.py:218-275 and lines 407-408 / 435-436 of verify_certificate
Aggregate ==
    /\ pc = "checks"
    /\ idx > Len(registry)
    /\ results' = [results EXCEPT !.non_qr_verification_result =
                       Report(registry, modules, weighted_total)]
    /\ pc' = "combine"
    /\ UNCHANGED <<hvars, file_input, doc, registry, temp_dir, temp_files, cwd_files,
                   idx, modules, weighted_total, ret, log>>

\* lines 414-428 (a URL was found) and 438-440 (none was)
Combine ==
    /\ pc = "combine"
    /\ LET qr  == results.qr_verification_result
           nq  == results.non_qr_verification_result
           adopt == "final_score" \in DOMAIN nq
           qr_verified == IsDict(qr) /\ Get(qr, "verified", FALSE)
           score == Get(qr, "score", Num(100))
       IN  IF results.verification_type = "QR/URL" /\ qr_verified
           THEN IF IsNumber(score)
                THEN /\ results' = [results EXCEPT !.final_verdict = "VERIFIED",
                                                   !.final_score = score.n * 100]
                     /\ pc' = "unify"
                     /\ ret' = ret
                ELSE \* line 421: None * 100
                     /\ ret' = ErrorReturn("TypeError")
                     /\ pc' = "cleanup"
                     /\ results' = [results EXCEPT !.final_verdict = "VERIFIED"]
           ELSE /\ results' =
                     IF adopt
                     THEN [results EXCEPT !.final_score = nq.final_score,
                                          !.final_verdict = nq.final_verdict]
                     ELSE IF results.verification_type = "QR/URL"
                          THEN [results EXCEPT !.final_verdict = "FAILED"]
                          ELSE results
                /\ pc' = "unify"
                /\ ret' = ret
    /\ UNCHANGED <<hvars, file_input, doc, registry, temp_dir, temp_files, cwd_files,
                   idx, modules, weighted_total, log>>

\* lines 446-516: the secondary LLM call, the status, unified_output
Unify ==
    /\ pc = "unify"
    /\ \E reply \in MetaReplies :
          IF UnifyRaises(results.qr_verification_result,
                         results.non_qr_verification_result)
          THEN /\ ret' = ErrorReturn("TypeError or AttributeError")
               /\ UNCHANGED results
          ELSE /\ results' = SetKey(results, "unified_output",
                                    UnifiedOutput(results, MergeMeta(reply)))
               /\ ret' = Returned(results')
    /\ pc' = "cleanup"
    /\ log' = [log EXCEPT !.net = @ \cup {LlmCall}]
    /\ UNCHANGED <<hvars, file_input, doc, registry, temp_dir, temp_files, cwd_files,
                   idx, modules, weighted_total>>

\* lines 517-523: finally: shutil.rmtree(temp_dir)
Cleanup ==
    /\ pc = "cleanup"
    /\ temp_dir' = FALSE
    /\ temp_files' = {}
    /\ pc' = "done"
    /\ UNCHANGED <<hvars, file_input, doc, registry, cwd_files, results,
                   idx, modules, weighted_total, ret, log>>

Next ==
    \/ Acquire
    \/ DownloadStalls
    \/ Detect
    \/ External
    \/ BeginChecks
    \/ RunCheck
    \/ Aggregate
    \/ Combine
    \/ Unify
    \/ Cleanup

Spec == Init /\ [][Next]_vars

(***************************************************************************)
(* Normalizer harness: extract_numeric_score on every bounded CheckResult. *)
(***************************************************************************)
NInit ==
    /\ nPc = "ready"
    /\ nIn \in NormInputs
    /\ nOut = Raised
    /\ nScore = 0
    /\ POff /\ COff /\ FOff /\ TOff
    /\ pc = "off" /\ file_input = [kind |-> "path", ok |-> TRUE]
    /\ doc = [verification |-> "none", producer |-> "clean", images |-> 0]
    /\ registry = CHECK_MODULES
    /\ temp_dir = FALSE /\ temp_files = {} /\ cwd_files = {}
    /\ results = EmptyMap /\ idx = 0 /\ modules = EmptyMap
    /\ weighted_total = 0 /\ ret = NoCall /\ log = NoLog

\* main.py:202-203: score, verdict = extract_numeric_score(raw); clamp
Normalize ==
    /\ nPc = "ready"
    /\ nOut' = extract_numeric_score(nIn)
    /\ nScore' = IF nOut'.raised THEN 0 ELSE ClampScore(nOut'.score)
    /\ nPc' = "done"
    /\ UNCHANGED <<nIn, mvars, pvars, cvars, fvars, tvars>>

SpecNorm == NInit /\ [][Normalize]_vars

(***************************************************************************)
(* Properties of verify_certificate and run_non_qr_checks (Spec).          *)
(***************************************************************************)
Finished == pc = "done"
HasUnified == ret.kind = "return" /\ "unified_output" \in DOMAIN ret.value
IsReport(x) == "final_score" \in DOMAIN x
\* the external comparison score of a result, in hundredths: the comparator's
\* "score" when the comparator returned a mapping without "error", else 0
ExternalScoreOf(res) ==
    LET q == res.qr_verification_result
    IN  IF "none" \in DOMAIN q \/ "error" \in DOMAIN q \/ "score" \notin DOMAIN q
        THEN 0 ELSE q.score.n
\* the forensic final_score of a result, in hundredths
ForensicScoreOf(res) ==
    LET r == res.non_qr_verification_result
    IN  IF IsReport(r) THEN r.final_score ELSE 0

\* C1: for a document that exists and can be read, verify_certificate returns
\* (it never raises) a result that carries unified_output with all thirteen
\* keys and a status that is "verified" or "rejected".
C1_AlwaysUnifiedOutput ==
    (Finished /\ file_input.ok) =>
        /\ ret.kind = "return"
        /\ "unified_output" \in DOMAIN ret.value
        /\ DOMAIN ret.value.unified_output = UnifiedKeys
        /\ ret.value.unified_output.status \in {"verified", "rejected"}

\* C2: in a result that carries unified_output, status is "verified" exactly
\* when the external score is above 0.7 and the forensic final_score is above
\* 70; otherwise it is "rejected" and rejection_reason is a non-empty text
\* that names the threshold (or both) that was not met.
C2_StatusThresholds ==
    (Finished /\ HasUnified) =>
        LET u  == ret.value.unified_output
            qs == ExternalScoreOf(ret.value)
            ns == ForensicScoreOf(ret.value)
        IN  /\ (u.status = "verified") <=> (qs > 70 /\ ns > Pt(70))
            /\ u.status = "verified" => u.rejection_reason = Null
            /\ u.status # "verified" =>
                 /\ u.status = "rejected"
                 /\ u.rejection_reason.t = "str" /\ u.rejection_reason.s # ""
                 /\ (qs <= 70 /\ ns <= Pt(70)) => u.rejection_reason.s = ReasonBoth
                 /\ (qs <= 70 /\ ns > Pt(70)) => u.rejection_reason.s = ReasonExternal
                 /\ (qs > 70 /\ ns <= Pt(70)) => u.rejection_reason.s = ReasonForensic

\* a result at the external threshold itself (0.7) with a passing forensic
\* score is rejected, and the reason names the external threshold
C2_Witness ==
    /\ Finished /\ HasUnified
    /\ ExternalScoreOf(ret.value) = 70
    /\ ForensicScoreOf(ret.value) > Pt(70)
    /\ ret.value.unified_output.status = "rejected"
    /\ ret.value.unified_output.rejection_reason = Str(ReasonExternal)

\* C3: when the document carries no QR code and no URL, the external
\* comparator is never invoked and what verify_certificate returns is the
\* forensic report's verdict and score, adopted as they are: final_verdict and
\* final_score are the report's, and the unified status follows the forensic
\* score alone.
C3_NoUrlAdoptsForensic ==
    (Finished /\ file_input.ok /\ doc.verification = "none" /\ ret.kind = "return") =>
        LET rep == results.non_qr_verification_result
        IN  /\ ~IsDict(results.qr_verification_result)
            /\ IsReport(rep)
            /\ "unified_output" \in DOMAIN ret.value
            /\ ret.value.final_verdict = rep.final_verdict
            /\ ret.value.final_score = rep.final_score
            /\ (ret.value.unified_output.status = "verified")
                  <=> (rep.final_score > Pt(70))

\* C4: once run_non_qr_checks has begun, a check that fails (at load, while
\* running, or by returning "error") is recorded with score 0 and verdict
\* ERROR for that check only: every registered check has an entry and the
\* report is returned.
C4_FailingCheckIsolated ==
    (Finished /\ idx >= 1) =>
        LET rep == results.non_qr_verification_result
        IN  /\ ret.kind = "return"
            /\ IsReport(rep)
            /\ DOMAIN rep.modules = Range(registry)
            /\ \A m \in DOMAIN rep.modules :
                  (rep.modules[m].raw.kind = "dict" /\ Present(rep.modules[m].raw.error))
                     => (rep.modules[m].score = 0 /\ rep.modules[m].verdict = "ERROR")

\* C5: when verify_certificate has ended, by return or by exception, the
\* per-call temporary directory and every file a check wrote are gone.
C5_NoTempLeftBehind ==
    Finished => (~temp_dir /\ temp_files = {} /\ cwd_files = {})

\* sums over the entries of a report
ReportWeighted(rep) ==
    SumOver([m \in DOMAIN rep.modules |-> rep.modules[m].score * rep.weights[m]],
            DOMAIN rep.modules)
ReportWeights(rep) == SumOver(rep.weights, DOMAIN rep.weights)
Abs(x) == IF x < 0 THEN -x ELSE x
VerdictBands(rep) ==
    /\ (rep.final_verdict = "ORIGINAL") <=> (rep.final_score >= Pt(75))
    /\ (rep.final_verdict = "SUSPICIOUS")
          <=> (rep.final_score >= Pt(45) /\ rep.final_score < Pt(75))
    /\ (rep.final_verdict = "FAKE") <=> (rep.final_score < Pt(45))
    /\ (\A m \in DOMAIN rep.modules : rep.modules[m].score = Pt(100))
          => (rep.final_score = Pt(100) /\ rep.final_verdict = "ORIGINAL")
HaveReport ==
    /\ "non_qr_verification_result" \in DOMAIN results
    /\ IsReport(results.non_qr_verification_result)

\* C9: the weight map a report was computed with sums to 100 and
\* metadata_check holds exactly half of the sum, for every number of other
\* registered checks, none included.
C9_WeightsSumTo100 ==
    HaveReport =>
        LET rep == results.non_qr_verification_result
        IN  /\ ReportWeights(rep) = TOTAL * WeightDen(registry)
            /\ 2 * rep.weights["metadata_check"] = ReportWeights(rep)

\* C10 as stated: final_score is exactly 100 x (sum of score/100 x weight) /
\* (sum of weights), and the verdict is read off final_score at 75 and 45.
C10_ExactRatio ==
    HaveReport =>
        LET rep == results.non_qr_verification_result
        IN  /\ rep.final_score * ReportWeights(rep) = ReportWeighted(rep)
            /\ VerdictBands(rep)

\* C10 amended: final_score is that ratio rounded to two decimals (it is
\* within half a hundredth of it), and the verdict is read off the rounded
\* final_score: ORIGINAL from 75, SUSPICIOUS from 45 to below 75, FAKE below
\* 45; all checks at 100 give 100 and ORIGINAL.
C10_RoundedRatio ==
    HaveReport =>
        LET rep == results.non_qr_verification_result
        IN  /\ 2 * Abs(rep.final_score * ReportWeights(rep) - ReportWeighted(rep))
                  <= ReportWeights(rep)
            /\ VerdictBands(rep)

\* a report whose final_score is 75.00 exactly, reached with more than one
\* check, and whose verdict is ORIGINAL
C10_Witness ==
    /\ HaveReport
    /\ results.non_qr_verification_result.final_score = Pt(75)
    /\ results.non_qr_verification_result.final_verdict = "ORIGINAL"
    /\ Cardinality(DOMAIN results.non_qr_verification_result.modules) >= 2

(***************************************************************************)
(* Properties of extract_numeric_score (SpecNorm).                         *)
(***************************************************************************)
Normalized == nPc = "done"

C7_NeverRaises ==
    Normalized => ~nOut.raised

\* C8: the rules apply in the order error, final_score, score, confidence,
\* verdict lexicon, nested mapping, and the first that applies decides alone:
\* "error" gives (0, ERROR) whatever else is there, a numeric final_score
\* beats score, score beats confidence, confidence beats the verdict.
C8_RuleOrder ==
    (Normalized /\ nIn.kind = "dict") =>
        LET hasFinal == IsNumber(nIn.final_score) \/ IsNumber(nIn.finalScore)
                           \/ IsNumber(nIn.finalscore)
            final == IF IsNumber(nIn.final_score) THEN nIn.final_score.n
                     ELSE IF IsNumber(nIn.finalScore) THEN nIn.finalScore.n
                     ELSE nIn.finalscore.n
        IN  /\ Present(nIn.error) => nOut = Ret(0, "ERROR")
            /\ (~Present(nIn.error) /\ hasFinal) =>
                  (~nOut.raised /\ nOut.score = final)
            /\ (~Present(nIn.error) /\ ~hasFinal /\ IsNumber(nIn.score)) =>
                  (~nOut.raised /\ nOut.score = nIn.score.n)
            /\ (~Present(nIn.error) /\ ~hasFinal /\ ~Present(nIn.score)
                  /\ IsNumber(nIn.confidence)) =>
                  /\ ~nOut.raised
                  /\ nOut.score = IF nIn.confidence.n <= 100
                                  THEN nIn.confidence.n * 100 ELSE nIn.confidence.n
            /\ (~Present(nIn.error) /\ ~hasFinal /\ ~Present(nIn.score)
                  /\ ~Present(nIn.confidence)
                  /\ Upper(StrOf(nIn.verdict)) \in LexHigh \cup LexMid \cup LexLow) =>
                  /\ ~nOut.raised
                  /\ nOut.score = (IF Upper(StrOf(nIn.verdict)) \in LexHigh THEN Pt(100)
                                   ELSE IF Upper(StrOf(nIn.verdict)) \in LexMid
                                   THEN Pt(70) ELSE 0)
                  /\ nOut.label = Upper(StrOf(nIn.verdict))

\* a mapping with a numeric final_score and a different score: final_score wins
C8_Witness ==
    /\ Normalized
    /\ ~Present(nIn.error)
    /\ IsNumber(nIn.final_score) /\ IsNumber(nIn.score)
    /\ nIn.final_score.n # nIn.score.n
    /\ nOut.score = nIn.final_score.n

(***************************************************************************)
(* Properties of single checks inside the aggregate report (Spec).         *)
(***************************************************************************)
TheReport == results.non_qr_verification_result
NamesTampering(rep) ==
    \E i \in DOMAIN rep.overall_reason.sentences :
        rep.overall_reason.sentences[i] = "Potential tampering found in: "

\* C11: when the producer metadata holds a keyword of the suspicious-tool
\* list, metadata_check's entry in the report has score 0 and metadata_check
\* is among the critical issues the overall reason names, whatever the other
\* checks returned.
C11_SuspiciousProducerCritical ==
    (HaveReport /\ doc.producer = "suspicious") =>
        /\ TheReport.modules["metadata_check"].score = 0
        /\ "metadata_check" \in Range(TheReport.overall_reason.critical_issues)
        /\ NamesTampering(TheReport)

\* a suspicious producer in a report where another check scored 85 or more
C11_Witness ==
    /\ HaveReport /\ doc.producer = "suspicious"
    /\ \E m \in DOMAIN TheReport.modules :
          m # "metadata_check" /\ TheReport.modules[m].score >= Pt(85)
    /\ "metadata_check" \in Range(TheReport.overall_reason.critical_issues)

\* C12: for a document without an embedded raster image, ela_check returns
\* verdict NOT_APPLICABLE with score 50, its entry in the report has score 50,
\* and ela_check is not among the critical issues.
C12_NoRasterNeutral ==
    (HaveReport /\ doc.images = 0 /\ "ela_check" \in DOMAIN TheReport.modules) =>
        /\ TheReport.modules["ela_check"].raw.verdict = Str("NOT_APPLICABLE")
        /\ TheReport.modules["ela_check"].raw.score = Num(Pt(50))
        /\ TheReport.modules["ela_check"].score = Pt(50)
        /\ "ela_check" \notin Range(TheReport.overall_reason.critical_issues)

\* a document without raster image whose report does list critical issues,
\* ela_check not among them
C12_Witness ==
    /\ HaveReport /\ doc.images = 0 /\ "ela_check" \in DOMAIN TheReport.modules
    /\ TheReport.overall_reason.critical_issues # <<>>
    /\ "ela_check" \notin Range(TheReport.overall_reason.critical_issues)

(***************************************************************************)
(* Properties of the external comparison and of the call order (Spec).     *)
(***************************************************************************)
ExternalRan ==
    /\ "qr_verification_result" \in DOMAIN results
    /\ log.scrape # "none"
TheComparison == results.qr_verification_result
\* two parsed names that are names of different people
ClearlyDifferent(a, b) ==
    /\ a.t = "str" /\ b.t = "str"
    /\ a.s # "" /\ b.s # ""
    /\ a.s # b.s
NamesDiffer(q) ==
    /\ "parsed_pdf_data" \in DOMAIN q /\ "parsed_site_data" \in DOMAIN q
    /\ IsDict(q.parsed_pdf_data) /\ IsDict(q.parsed_site_data)
    /\ "name" \in DOMAIN q.parsed_pdf_data /\ "name" \in DOMAIN q.parsed_site_data
    /\ ClearlyDifferent(q.parsed_pdf_data.name, q.parsed_site_data.name)

\* C13: when the name parsed from the document and the name parsed from the
\* scraped source are different people, the comparison verify_qr returns has
\* verified = false, whatever the other fields say.
C13_DifferentNamesNotVerified ==
    (ExternalRan /\ NamesDiffer(TheComparison)) =>
        ("verified" \in DOMAIN TheComparison /\ TheComparison.verified = FALSE)

ExpectedCalls == <<"detect_qr", "detect_url", "verify_qr", "run_non_qr_checks">>
UrlDetected == "qr_data" \in DOMAIN results /\ Truthy(results.qr_data)

\* C14: when a verification URL is detected, detection runs once, then the
\* external sub-pipeline once, then the forensic suite once, in this order,
\* and the forensic suite runs whatever the external sub-pipeline did
\* (returned a comparison, returned an error, raised).
C14_CallOrder ==
    UrlDetected =>
        /\ Len(log.calls) <= Len(ExpectedCalls)
        /\ log.calls = SubSeq(ExpectedCalls, 1, Len(log.calls))
        /\ Finished => log.calls = ExpectedCalls

\* the external sub-pipeline raised and the forensic suite ran to its report
C14_Witness ==
    /\ Finished /\ UrlDetected
    /\ log.scrape = "raised"
    /\ HaveReport
    /\ log.calls = ExpectedCalls

IsText(v) == v.t = "str" /\ v.s # ""
IsList(v) == v.t = "list"

\* C15: whatever the secondary LLM call handed back, the classification in
\* unified_output has category, level, rank and summary as text and skills as
\* a list: the default stands in for every field not supplied correctly.
C15_ClassificationUsable ==
    (Finished /\ HasUnified) =>
        LET u == ret.value.unified_output
        IN  /\ IsText(u.category) /\ IsText(u.level) /\ IsText(u.rank)
            /\ IsText(u.ai_summary)
            /\ IsList(u.skills)

\* the LLM call failed or its output is no object of the reply format
LlmUnusable(reply) ==
    \/ reply = EmptyMap
    \/ "_raw_parsed" \in DOMAIN reply
    \/ "_raw_text" \in DOMAIN reply

\* C16: when scraping fails, or the LLM call fails or returns unusable
\* output, verify_qr returns a comparison with verified = false, score = 0
\* and a reason string.
C16_ExternalDegrades ==
    (ExternalRan /\ (\/ log.scrape = "scrape_raised"
                     \/ (log.scrape = "docs" /\ LlmUnusable(log.reply)))) =>
        /\ "verified" \in DOMAIN TheComparison /\ TheComparison.verified = FALSE
        /\ "score" \in DOMAIN TheComparison /\ TheComparison.score = Num(0)
        /\ "reason" \in DOMAIN TheComparison /\ TheComparison.reason.t = "str"

(***************************************************************************)
(* safe_parse_json (backend_interface.py and scraping.py hold the same     *)
(* function).  An LLM text is a sequence of tokens: "fence" is a markdown  *)
(* code fence, "json" the language tag, "{" and "}" the braces of JSON     *)
(* objects, "w" any run of prose that is not JSON.                         *)
(***************************************************************************)
MaxTokens == 4

Tokens == {"fence", "json", "{", "}", "w"}

Texts == UNION {[1..n -> Tokens] : n \in 0..MaxTokens}

\* brace depth after the first i tokens of t
RECURSIVE Depth(_, _)
Depth(t, i) ==
    IF i = 0 THEN 0
    ELSE Depth(t, i - 1) + (IF t[i] = "{" THEN 1 ELSE IF t[i] = "}" THEN -1 ELSE 0)

\* json.loads succeeds on t: one object, possibly holding nested objects
IsObject(t) ==
    /\ Len(t) >= 2
    /\ \A i \in 1..Len(t) : t[i] \in {"{", "}"}
    /\ Depth(t, Len(t)) = 0
    /\ \A i \in 1..(Len(t) - 1) : Depth(t, i) > 0

HasFence(t) == \E i \in 1..Len(t) : t[i] = "fence"

\* text.split on the fence
RECURSIVE Split(_)
Split(t) ==
    IF ~HasFence(t) THEN <<t>>
    ELSE LET i == CHOOSE k \in 1..Len(t) :
                      t[k] = "fence" /\ \A j \in 1..(k - 1) : t[j] # "fence"
         IN  <<SubSeq(t, 1, i - 1)>> \o Split(SubSeq(t, i + 1, Len(t)))

StartsWith(part, tok) == Len(part) >= 1 /\ part[1] = tok

\* the loop over the parts: the first part starting with "json" or "{"
\* replaces the text; with no such part the text stays as it was
Unfenced(t) ==
    LET parts == Split(t)
        hits  == {k \in 1..Len(parts) :
                      StartsWith(parts[k], "json") \/ StartsWith(parts[k], "{")}
    IN  IF ~HasFence(t) \/ hits = {} THEN t
        ELSE LET k == CHOOSE h \in hits : \A g \in hits : h <= g
             IN  IF StartsWith(parts[k], "json") THEN Tail(parts[k]) ELSE parts[k]

safe_parse_json(t) ==
    LET text == Unfenced(t)
    IN  IF IsObject(text) THEN [kind |-> "parsed", text |-> text]
        ELSE [kind |-> "raw", text |-> text]

\* no verify_certificate call in progress
MOff ==
    /\ pc = "off" /\ file_input = [kind |-> "path", ok |-> TRUE]
    /\ doc = [verification |-> "none", producer |-> "clean", images |-> 0]
    /\ registry = CHECK_MODULES
    /\ temp_dir = FALSE /\ temp_files = {} /\ cwd_files = {}
    /\ results = EmptyMap /\ idx = 0 /\ modules = EmptyMap
    /\ weighted_total = 0 /\ ret = NoCall /\ log = NoLog

PInit ==
    /\ NOff /\ COff /\ FOff /\ TOff
    /\ pPc = "ready" /\ pText \in Texts /\ pOut = [kind |-> "none", text |-> <<>>]
    /\ MOff

Parse ==
    /\ pPc = "ready"
    /\ pOut' = safe_parse_json(pText)
    /\ pPc' = "done"
    /\ UNCHANGED <<pText, nvars, mvars, cvars, fvars, tvars>>

SpecParse == PInit /\ [][Parse]_vars

(***************************************************************************)
(* Two verify_certificate calls running logo_check at the same time, each  *)
(* on its own document.  Call c's document holds embedded image c.  The    *)
(* paths logo_check builds are relative ("auto_logos/logo_1_1.png"), so    *)
(* every read and write resolves them against the working directory of    *)
(* the moment.                                                             *)
(***************************************************************************)
Calls == {1, 2}

Dirs == {"root", "checks"}

LogoNames == {"png", "crop"}

NoFiles == [f \in Dirs \X LogoNames |-> 0]

NoLogoResult == [error |-> FALSE, image |-> 0]

CInit ==
    /\ NOff /\ POff /\ MOff /\ FOff /\ TOff
    /\ cPc = [c \in Calls |-> "enter"]
    /\ cOld = [c \in Calls |-> "root"]
    /\ cCwd = "root"
    /\ cFiles = NoFiles
    /\ cPath = [c \in Calls |-> "png"]
    /\ cRes = [c \in Calls |-> NoLogoResult]

\* main.py:43-45: old = os.getcwd(); os.chdir(CHECKS_DIR)
EnterChdir(c) ==
    /\ cPc[c] = "enter"
    /\ cOld' = [cOld EXCEPT ![c] = cCwd]
    /\ cCwd' = "checks"
    /\ cPc' = [cPc EXCEPT ![c] = "leave"]
    /\ UNCHANGED <<cFiles, cPath, cRes, nvars, mvars, pvars, fvars, tvars>>

\* main.py:46-48: the module is loaded, then os.chdir(old)
LeaveChdir(c) ==
    /\ cPc[c] = "leave"
    /\ cCwd' = cOld[c]
    /\ cPc' = [cPc EXCEPT ![c] = "extract"]
    /\ UNCHANGED <<cOld, cFiles, cPath, cRes, nvars, mvars, pvars, fvars, tvars>>

\* logo_check.py:54-56: cv2.imwrite("auto_logos/logo_1_1.png", img)
ExtractImages(c) ==
    /\ cPc[c] = "extract"
    /\ cFiles' = [cFiles EXCEPT ![<<cCwd, "png">>] = c]
    /\ cPath' = [cPath EXCEPT ![c] = "png"]
    /\ cPc' = [cPc EXCEPT ![c] = "crop"]
    /\ UNCHANGED <<cOld, cCwd, cRes, nvars, mvars, pvars, fvars, tvars>>

\* logo_check.py:62-85: cv2.imread(img_path); with no file the conversion
\* raises and run_check_module returns {"error"} (main.py:139-140); with no
\* contour the original path is returned; else the crop is written next to it
CropLogo(c) ==
    /\ cPc[c] = "crop"
    /\ LET img == cFiles[<<cCwd, "png">>]
       IN  \/ /\ img = 0
              /\ cRes' = [cRes EXCEPT ![c] = [error |-> TRUE, image |-> 0]]
              /\ cPc' = [cPc EXCEPT ![c] = "done"]
              /\ UNCHANGED <<cFiles, cPath>>
           \/ /\ img # 0
              /\ cPc' = [cPc EXCEPT ![c] = "analyze"]
              /\ \/ UNCHANGED <<cFiles, cPath>>
                 \/ /\ cFiles' = [cFiles EXCEPT ![<<cCwd, "crop">>] = img]
                    /\ cPath' = [cPath EXCEPT ![c] = "crop"]
              /\ UNCHANGED cRes
    /\ UNCHANGED <<cOld, cCwd, nvars, mvars, pvars, fvars, tvars>>

\* logo_check.py:111-112: open(img_path, "rb").read() is what gets analysed
AnalyzeLogo(c) ==
    /\ cPc[c] = "analyze"
    /\ LET img == cFiles[<<cCwd, cPath[c]>>]
       IN  cRes' = [cRes EXCEPT ![c] = [error |-> img = 0, image |-> img]]
    /\ cPc' = [cPc EXCEPT ![c] = "done"]
    /\ UNCHANGED <<cOld, cCwd, cFiles, cPath, nvars, mvars, pvars, fvars, tvars>>

CNext ==
    \/ \E c \in Calls : EnterChdir(c)
    \/ \E c \in Calls : LeaveChdir(c)
    \/ \E c \in Calls : ExtractImages(c)
    \/ \E c \in Calls : CropLogo(c)
    \/ \E c \in Calls : AnalyzeLogo(c)

SpecConc == CInit /\ [][CNext]_vars

(***************************************************************************)
(* C17                                                                     *)
(***************************************************************************)
\* the text holds an object: the braces opened at its first "{" close again
\* and what they enclose is JSON
CanExtract(t) ==
    \E i \in 1..Len(t) :
        /\ t[i] = "{"
        /\ \A h \in 1..(i - 1) : t[h] # "{"
        /\ \E j \in i..Len(t) : IsObject(SubSeq(t, i, j))

\* C17: safe_parse_json returns the parsed object whenever the text holds a
\* JSON object (inside markdown fences or surrounded by other text), and
\* returns {_raw_text: <text>} only when no object can be extracted from it.
C17_ParsesEmbeddedObject ==
    pPc = "done" =>
        /\ pOut.kind \in {"parsed", "raw"}
        /\ (pOut.kind = "parsed" <=> CanExtract(pText))

(***************************************************************************)
(* C18                                                                     *)
(***************************************************************************)
\* what call c's logo_check analyses when no other call runs
AloneResult(c) == [error |-> FALSE, image |-> c]

\* C18: for every interleaving of two concurrent calls on different
\* documents, each call ends with the result it has when run alone, and the
\* process working directory is back where it was.
C18_CallsIndependent ==
    (\A c \in Calls : cPc[c] = "done") =>
        /\ \A c \in Calls : cRes[c] = AloneResult(c)
        /\ cCwd = "root"

(***************************************************************************)
(* C19                                                                     *)
(***************************************************************************)
\* C19: every network call made during one verification carries a timeout
\* and is attempted at most 3 times, and no call keeps the verification
\* from completing.
C19_NetCallsBounded ==
    /\ \A c \in log.net : c.timeout > 0 /\ c.attempts \in 1..3
    /\ pc # "stalled"

(***************************************************************************)
(* C20                                                                     *)
(***************************************************************************)
\* a mapping with none of the score keys and no verdict of the lexicon
NoDirectAnswer(o) ==
    /\ o.kind = "dict"
    /\ \A k \in {"error", "final_score", "finalScore", "finalscore",
                 "score", "confidence"} : ~Present(o[k])
    /\ \/ ~Present(o.verdict)
       \/ Upper(StrOf(o.verdict)) \notin
              (LexHigh \cup LexMid \cup LexLow \cup LexNeutral)

\* the nested mapping's own keys decide, whatever it nests in turn
OneLevel(inner) == extract_numeric_score([inner EXCEPT !.sub = <<>>])

\* C20: a CheckResult without error, final_score, score, confidence and
\* without a verdict of the lexicon is normalized by its first nested
\* mapping, one level deep; with no nested mapping it is (50, UNKNOWN).
C20_NestedMappingDecides ==
    nPc = "done" /\ NoDirectAnswer(nIn) =>
        nOut = IF nIn.sub # <<>> THEN OneLevel(Head(nIn.sub))
               ELSE Ret(Pt(50), "UNKNOWN")

(***************************************************************************)
(* signature_check.py: the structural scan of the raw bytes and the score. *)
(* A PDF is described by what the scan counts in it: /Prev entries,        *)
(* startxref keywords, xref section keywords, " obj" occurrences, whether  *)
(* the trailer carries signature markers, and which keyword lists its      *)
(* producer/creator hit.                                                   *)
(***************************************************************************)
MaxXref == 2

ObjCounts == {3, 10, 6000}

Pdfs ==
    [has_signature : BOOLEAN, prev : 0..1, startxref : 0..MaxXref,
     xref : 0..MaxXref, obj : ObjCounts, trusted : BOOLEAN, suspicious : BOOLEAN]

\* signature_check.py:56-91.  text.count("xref") also counts the "xref"
\* inside every "startxref"
analyze_raw_structure(pdf) ==
    LET startxref_count == pdf.startxref
        xref_count      == pdf.xref + pdf.startxref
        prev_count      == pdf.prev
    IN  [startxref_count |-> startxref_count,
         xref_count |-> xref_count,
         obj_count |-> pdf.obj,
         prev_count |-> prev_count,
         incremental_updates |->
             (prev_count > 0 \/ startxref_count > 1 \/ xref_count > 1)]

\* lines 213-216
ClampForensic(score) == Max(0, Min(Pt(100), score))

\* lines 219-227
ForensicVerdict(score) ==
    IF score >= Pt(75) THEN "LIKELY_ORIGINAL"
    ELSE IF score >= Pt(45) THEN "UNCERTAIN"
    ELSE "LIKELY_TAMPERED"

\* signature_check.py:166-234
compute_ultra_forensic_score(signature_info, struct_info, soft_info) ==
    LET score == Pt(50)
                 + (IF signature_info.has_signature THEN Pt(30) ELSE 0)
                 - (IF struct_info.incremental_updates THEN Pt(15) ELSE 0)
                 - (IF struct_info.obj_count < 5 THEN Pt(5) ELSE 0)
                 - (IF struct_info.obj_count > 5000 THEN Pt(10) ELSE 0)
                 + (IF soft_info.trusted THEN Pt(10) ELSE 0)
                 - (IF soft_info.suspicious THEN Pt(20) ELSE 0)
    IN  [score |-> ClampForensic(score),
         verdict |-> ForensicVerdict(ClampForensic(score))]

\* lines 254-274: the report of ultra_forensic_signature_check on a parsed PDF
ForensicReport(pdf) ==
    LET struct_info == analyze_raw_structure(pdf)
        block == compute_ultra_forensic_score(
                     [has_signature |-> pdf.has_signature], struct_info,
                     [trusted |-> pdf.trusted, suspicious |-> pdf.suspicious])
    IN  [verdict |-> block.verdict, final_score |-> block.score,
         structure_info |-> struct_info]

GInit ==
    /\ NOff /\ POff /\ COff /\ TOff /\ MOff
    /\ fPc = "ready" /\ fIn \in Pdfs /\ fOut = <<>>

SignatureCheck ==
    /\ fPc = "ready"
    /\ fOut' = ForensicReport(fIn)
    /\ fPc' = "done"
    /\ UNCHANGED <<fIn, nvars, mvars, pvars, cvars, tvars>>

SpecSig == GInit /\ [][SignatureCheck]_vars

(***************************************************************************)
(* C21                                                                     *)
(***************************************************************************)
\* the score the four adjustments give
FourAdjustments(pdf, incremental) ==
    Pt(50) + (IF pdf.has_signature THEN Pt(30) ELSE 0)
           - (IF incremental THEN Pt(15) ELSE 0)
           + (IF pdf.trusted THEN Pt(10) ELSE 0)
           - (IF pdf.suspicious THEN Pt(10) ELSE 0)

\* C21: the forensic score is 50, +30 for signature markers, -15 for flagged
\* incremental updates, +10 for a trusted generator, -10 for suspicious
\* software and nothing else, clamped to [0,100]; the verdict is
\* LIKELY_ORIGINAL from 75, UNCERTAIN from 45, LIKELY_TAMPERED below.
C21_ForensicScore ==
    fPc = "done" =>
        /\ fOut.final_score =
               Max(0, Min(Pt(100),
                   FourAdjustments(fIn, fOut.structure_info.incremental_updates)))
        /\ fOut.verdict = "LIKELY_ORIGINAL" <=> fOut.final_score >= Pt(75)
        /\ fOut.verdict = "UNCERTAIN" <=>
               (fOut.final_score >= Pt(45) /\ fOut.final_score < Pt(75))
        /\ fOut.verdict = "LIKELY_TAMPERED" <=> fOut.final_score < Pt(45)

(***************************************************************************)
(* C29                                                                     *)
(***************************************************************************)
\* C29: incremental_updates is set only for a PDF with a /Prev entry, more
\* than one startxref or more than one xref section.
C29_IncrementalOnlyWhenUpdated ==
    fPc = "done" =>
        (fOut.structure_info.incremental_updates
            <=> (fIn.prev > 0 \/ fIn.startxref > 1 \/ fIn.xref > 1))

(***************************************************************************)
(* name_check.py: the OCR field-consistency check.  A page image is        *)
(* described by what the five sub-scores measure on it.                    *)
(***************************************************************************)
ErrorCounts == {0, 5, 20, 21}

MarksCounts == {0, 4}

Pages ==
    [edges : {"smooth", "normal", "uneven"}, errors : ErrorCounts,
     hits : 0..4, marks : MarksCounts, rows : {"flat", "normal"}]

\* name_check.py:45-55
font_variance_score(page) == IF page.edges = "normal" THEN 90 ELSE 20

\* name_check.py:61-74
spelling_score(page) == IF page.errors > 20 THEN 20 ELSE 100 - page.errors * 2

\* name_check.py:81-88
keyword_score(page) == IF page.hits = 0 THEN 10 ELSE page.hits * 25

\* name_check.py:94-101
marks_score(page) == IF page.marks > 3 THEN 20 ELSE 90

\* name_check.py:107-116
alignment_score(page) == IF page.rows = "flat" THEN 25 ELSE 95

\* name_check.py:146-151, total in hundredths
NameVerdict(total) ==
    IF total >= Pt(80) THEN "ORIGINAL"
    ELSE IF total >= Pt(55) THEN "SUSPICIOUS"
    ELSE "FAKE"

\* name_check.py:122-165; the weights 0.25, 0.25, 0.25, 0.15, 0.10 are
\* counted in hundredths, so total is in hundredths of a point
analyze(page) ==
    LET total == font_variance_score(page) * 25
                 + spelling_score(page) * 25
                 + keyword_score(page) * 25
                 + alignment_score(page) * 15
                 + marks_score(page) * 10
    IN  [verdict |-> NameVerdict(total), final_score |-> total]

KInit ==
    /\ NOff /\ POff /\ COff /\ TOff /\ MOff
    /\ fPc = "ready" /\ fIn \in Pages /\ fOut = <<>>

NameCheck ==
    /\ fPc = "ready"
    /\ fOut' = analyze(fIn)
    /\ fPc' = "done"
    /\ UNCHANGED <<fIn, nvars, mvars, pvars, cvars, tvars>>

SpecName == KInit /\ [][NameCheck]_vars

(***************************************************************************)
(* C22                                                                     *)
(***************************************************************************)
\* 25% font, 25% spelling, 25% keywords, 15% marks, 10% alignment
TotalAsStated(page) ==
    font_variance_score(page) * 25 + spelling_score(page) * 25
    + keyword_score(page) * 25 + marks_score(page) * 15
    + alignment_score(page) * 10

\* C22: the field-consistency total weighs font 25%, spelling 25%, keywords
\* 25%, marks format 15% and row alignment 10%, and the verdict is ORIGINAL
\* from 80, SUSPICIOUS from 55 and FAKE below.
C22_FieldWeights ==
    fPc = "done" =>
        /\ fOut.final_score = TotalAsStated(fIn)
        /\ fOut.verdict = "ORIGINAL" <=> TotalAsStated(fIn) >= Pt(80)
        /\ fOut.verdict = "SUSPICIOUS" <=>
               (TotalAsStated(fIn) >= Pt(55) /\ TotalAsStated(fIn) < Pt(80))
        /\ fOut.verdict = "FAKE" <=> TotalAsStated(fIn) < Pt(55)

(***************************************************************************)
(* C24                                                                     *)
(***************************************************************************)
MetaScore(rep) == rep.modules["metadata_check"].score

\* C24: in every report final_score lies between m/2 and m/2 + 50, m being
\* the normalized score of metadata_check; when m is 0 the final_score is at
\* most 50, final_verdict is not ORIGINAL and a result that carries
\* unified_output has status "rejected", whatever the other checks and the
\* external comparison returned.
C24_MetadataHalf ==
    HaveReport =>
        /\ 2 * TheReport.final_score >= MetaScore(TheReport)
        /\ 2 * TheReport.final_score <= MetaScore(TheReport) + Pt(100)
        /\ MetaScore(TheReport) = 0 =>
              /\ TheReport.final_score <= Pt(50)
              /\ TheReport.final_verdict # "ORIGINAL"
              /\ (Finished /\ HasUnified) =>
                     ret.value.unified_output.status = "rejected"

\* metadata_check at 0, another check at 100 and an external score above
\* 0.7: the call ends rejected
C24_Witness ==
    /\ Finished /\ HasUnified /\ HaveReport
    /\ MetaScore(TheReport) = 0
    /\ \E m \in DOMAIN TheReport.modules : TheReport.modules[m].score = Pt(100)
    /\ ExternalScoreOf(ret.value) > 70
    /\ ret.value.unified_output.status = "rejected"

(***************************************************************************)
(* C25                                                                     *)
(***************************************************************************)
\* C25: whenever the returned status is "verified", the comparison obtained
\* from the external sub-pipeline has verified = true.
C25_VerifiedNeedsComparison ==
    (Finished /\ HasUnified /\ ret.value.unified_output.status = "verified") =>
        /\ ExternalRan
        /\ IsDict(TheComparison)
        /\ "verified" \in DOMAIN TheComparison
        /\ TheComparison.verified = TRUE

(***************************************************************************)
(* extract_from_website (scraping.py:252-345).  The environment of one     *)
(* call: what the URL is, whether download_dir is a pathlib.Path or a str  *)
(* (verify_certificate hands the str that mkdtemp returned), whether the   *)
(* GET of the URL and the page render succeed, how many PDF links the page *)
(* holds and which of them, if any, cannot be fetched.                     *)
(***************************************************************************)
MaxPdfs == 2

MaxLinks == 3

Sites ==
    {e \in [url : {"pdf_ext", "pdf_ctype", "page"}, dir : {"path", "str"},
            fetch_ok : BOOLEAN, render_ok : BOOLEAN,
            links : 0..MaxLinks, fail_at : 0..MaxLinks] :
        /\ e.fail_at <= e.links
        /\ e.url # "page" => e.links = 0}

UrlSource == <<"url", 0>>
LinkSource(i) == <<"link", i>>
ExtractedDocument(source, ctype) == [source_url |-> source, content_type |-> ctype]

NoDocs == [raised |-> FALSE, docs |-> <<>>, calls |-> <<>>, downloads |-> 0]

\* pdf_links[:max_pdfs]
Wanted(e) == Min(e.links, MaxPdfs)

\* ensure_pdf on link i: fetch_url succeeds unless the link is the broken
\* one; save_binary (lines 80-83) then raises TypeError for a str directory
Fetched(e, i) == i # e.fail_at
Saved(e, i)   == Fetched(e, i) /\ e.dir = "path"

\* lines 291-297: the loop stops at the first link that is not saved
FirstUnsaved(e) ==
    IF \A i \in 1..Wanted(e) : Saved(e, i) THEN 0
    ELSE CHOOSE i \in 1..Wanted(e) :
             ~Saved(e, i) /\ \A j \in 1..(i - 1) : Saved(e, j)

Count(S) == Cardinality(S)

\* lines 298-344: the static GET and what follows it
Fallback(e, acc) ==
    LET calls == Append(acc.calls, "fallback_fetch")
    IN  IF ~e.fetch_ok THEN [acc EXCEPT !.raised = TRUE, !.calls = calls]
        ELSE IF e.url \in {"pdf_ext", "pdf_ctype"}
        THEN IF e.dir = "str"
             THEN [acc EXCEPT !.raised = TRUE, !.calls = calls,
                              !.downloads = @ + 1]
             ELSE [acc EXCEPT !.calls = calls, !.downloads = @ + 1,
                              !.docs = Append(@, ExtractedDocument(UrlSource, "pdf"))]
        ELSE LET all  == [i \in 1..Wanted(e) |-> i]
                 kept == SelectSeq(all, LAMBDA i : Saved(e, i))
             IN  [acc EXCEPT
                    !.calls = calls,
                    !.downloads = @ + Count({i \in 1..Wanted(e) : Fetched(e, i)}),
                    !.docs = Append(@, ExtractedDocument(UrlSource, "html"))
                             \o [k \in 1..Len(kept) |->
                                    ExtractedDocument(LinkSource(kept[k]), "pdf")]]

\* lines 278-297, and 298 when the render or a PDF of the page fails
Render(e, acc) ==
    LET calls == Append(acc.calls, "render")
    IN  IF ~e.render_ok THEN Fallback(e, [acc EXCEPT !.calls = calls])
        ELSE LET stop == FirstUnsaved(e)
                 got  == IF stop = 0 THEN Wanted(e) ELSE stop - 1
                 page == [acc EXCEPT
                            !.calls = calls,
                            !.downloads = @ + got
                                + (IF stop # 0 /\ Fetched(e, stop) THEN 1 ELSE 0),
                            !.docs = Append(@, ExtractedDocument(UrlSource, "html"))
                                     \o [i \in 1..got |->
                                            ExtractedDocument(LinkSource(i), "pdf")]]
             IN  IF stop = 0 THEN page ELSE Fallback(e, page)

\* lines 259-275: only a URL that ends in ".pdf" is fetched directly
extract_from_website(e) ==
    IF e.url = "pdf_ext"
    THEN LET acc == [NoDocs EXCEPT !.calls = <<"direct_fetch">>]
         IN  IF e.fetch_ok /\ e.dir = "path"
             THEN [acc EXCEPT !.downloads = 1,
                              !.docs = <<ExtractedDocument(UrlSource, "pdf")>>]
             ELSE Render(e, [acc EXCEPT !.downloads = IF e.fetch_ok THEN 1 ELSE 0])
    ELSE Render(e, NoDocs)

WInit ==
    /\ NOff /\ POff /\ COff /\ TOff /\ MOff
    /\ fPc = "ready" /\ fIn \in Sites /\ fOut = <<>>

Scrape ==
    /\ fPc = "ready"
    /\ fOut' = extract_from_website(fIn)
    /\ fPc' = "done"
    /\ UNCHANGED <<fIn, nvars, mvars, pvars, cvars, tvars>>

SpecScrape == WInit /\ [][Scrape]_vars

(***************************************************************************)
(* C23                                                                     *)
(***************************************************************************)
Called(what) == \E i \in DOMAIN fOut.calls : fOut.calls[i] = what

\* C23: when the verification URL points directly at a PDF, by its .pdf
\* extension or by the content type application/pdf, and the PDF can be
\* fetched, the renderer is never invoked and the result is the single pdf
\* document.
C23_DirectPdfSkipsRender ==
    (fPc = "done" /\ fIn.url \in {"pdf_ext", "pdf_ctype"} /\ fIn.fetch_ok) =>
        /\ ~Called("render")
        /\ ~fOut.raised
        /\ fOut.docs = <<ExtractedDocument(UrlSource, "pdf")>>

(***************************************************************************)
(* C30                                                                     *)
(***************************************************************************)
DocsOf(ctype) == {i \in DOMAIN fOut.docs : fOut.docs[i].content_type = ctype}

\* C30: on every path the returned list holds at most one html document and
\* at most max_pdfs pdf documents, no source appears twice, and at most
\* max_pdfs PDFs are downloaded in the call.
C30_BoundedDocuments ==
    (fPc = "done" /\ ~fOut.raised) =>
        /\ Cardinality(DocsOf("html")) <= 1
        /\ Cardinality(DocsOf("pdf")) <= MaxPdfs
        /\ \A i, j \in DOMAIN fOut.docs :
               fOut.docs[i].source_url = fOut.docs[j].source_url => i = j
        /\ fOut.downloads <= MaxPdfs

(***************************************************************************)
(* process_certificate_verification (tasks.py:12-81) running for one       *)
(* certificate while the student's mentor sends certificate_verify_view    *)
(* (views.py:111-146) for the same certificate.                            *)
(***************************************************************************)
\* what verify_certificate hands the task: a result whose unified_output has
\* status verified or rejected, one whose unified_output has skills = None,
\* the mapping {"error": ...} of backend_interface.py:361-366 and 514-516, or
\* no result at all when a check module calls exit() while it is loaded
TaskResults == {"verified", "rejected", "null_skills", "error", "exit"}

MentorStatuses == {"MANUAL_VERIFIED", "REJECTED"}

TInit ==
    /\ NOff /\ POff /\ COff /\ FOff /\ MOff
    /\ tPc = "verify" /\ tResult = "" /\ tCert = "" /\ tRet = ""
    /\ vPc = "load" /\ vNew \in MentorStatuses /\ vCert = ""
    /\ dbStatus = "PENDING"

\* tasks.py:22  result = verify_certificate(file_path); SystemExit is no
\* Exception, so the except of line 79 lets it through
TaskVerify ==
    /\ tPc = "verify"
    /\ tResult' \in TaskResults
    /\ IF tResult' = "exit"
       THEN tPc' = "done" /\ tRet' = "raised"
       ELSE tPc' = "load" /\ UNCHANGED tRet
    /\ UNCHANGED <<tCert, vPc, vNew, vCert, dbStatus,
                   nvars, mvars, pvars, cvars, fvars>>

\* tasks.py:25  cert = Certificate.objects.get(id=certificate_id)
TaskLoad ==
    /\ tPc = "load"
    /\ tCert' = dbStatus
    /\ tPc' = "set"
    /\ UNCHANGED <<tResult, tRet, vPc, vNew, vCert, dbStatus,
                   nvars, mvars, pvars, cvars, fvars>>

\* tasks.py:26-74: result["unified_output"] raises KeyError for an error
\* result, the loop over skills raises TypeError for None; both end in the
\* except of lines 79-81, before cert.save()
TaskSet ==
    /\ tPc = "set"
    /\ IF tResult = "error"
       THEN tRet' = "error" /\ tPc' = "done" /\ UNCHANGED tCert
       ELSE IF tResult = "null_skills"
       THEN tRet' = "error" /\ tPc' = "done" /\ tCert' = "NEEDS_REVIEW"
       ELSE /\ tCert' = IF tResult = "verified" THEN "AI_VERIFIED" ELSE "NEEDS_REVIEW"
            /\ tPc' = "save"
            /\ UNCHANGED tRet
    /\ UNCHANGED <<tResult, vPc, vNew, vCert, dbStatus,
                   nvars, mvars, pvars, cvars, fvars>>

\* tasks.py:76-77  cert.save() writes every field of the task's object
TaskSave ==
    /\ tPc = "save"
    /\ dbStatus' = tCert
    /\ tRet' = "result"
    /\ tPc' = "done"
    /\ UNCHANGED <<tResult, tCert, vPc, vNew, vCert,
                   nvars, mvars, pvars, cvars, fvars>>

\* views.py:123-129  certificate = Certificate.objects.get(id=pk); a
\* requester who is not the student's mentor is answered 403
ViewLoad ==
    /\ vPc = "load"
    /\ vCert' = dbStatus
    /\ vPc' \in {"save", "denied"}
    /\ UNCHANGED <<tPc, tResult, tCert, tRet, vNew, dbStatus,
                   nvars, mvars, pvars, cvars, fvars>>

\* views.py:131-133  certificate.status = new_status; certificate.save()
ViewSave ==
    /\ vPc = "save"
    /\ vCert' = vNew
    /\ dbStatus' = vNew
    /\ vPc' = "done"
    /\ UNCHANGED <<tPc, tResult, tCert, tRet, vNew,
                   nvars, mvars, pvars, cvars, fvars>>

TNext ==
    \/ TaskVerify
    \/ TaskLoad
    \/ TaskSet
    \/ TaskSave
    \/ ViewLoad
    \/ ViewSave

SpecTask == TInit /\ [][TNext]_vars

(***************************************************************************)
(* C26                                                                     *)
(***************************************************************************)
\* C26: once the task has finished, and the mentor has not decided, the
\* certificate is AI_VERIFIED or NEEDS_REVIEW, never PENDING, whichever
\* result verify_certificate returned.
C26_TaskLeavesNoPending ==
    (tPc = "done" /\ tRet # "raised" /\ vPc # "done") =>
        dbStatus \in {"AI_VERIFIED", "NEEDS_REVIEW"}

(***************************************************************************)
(* C27                                                                     *)
(***************************************************************************)
\* C27: once the mentor's request has stored MANUAL_VERIFIED or REJECTED, the
\* certificate keeps that status, whatever steps of the task follow.
C27_MentorDecisionKept ==
    vPc = "done" => dbStatus = vNew

(***************************************************************************)
(* C28                                                                     *)
(***************************************************************************)
\* C28: once every concurrent run_check_module call has left its chdir
\* block, the process working directory is the one it was before the first
\* call entered, in every interleaving of the enter and exit steps.
C28_CwdRestored ==
    (\A c \in Calls : cPc[c] \notin {"enter", "leave"}) => cCwd = "root"

====
